---- MODULE Spec2Model ----
(***************************************************************************)
(* The interactive shell of PythonParagon: InteractiveShell                *)
(* (src/paragon/core/shell.py) as configured and started by main()         *)
(* (src/main.py).  Strings are TLA+ strings; TLC evaluates Len, SubSeq and *)
(* \o on them, so a line is scanned character by character as the code     *)
(* does.                                                                   *)
(***************************************************************************)
EXTENDS Integers, Sequences, FiniteSets, TLC

(***************************************************************************)
(* Bounds of the model.                                                    *)
(***************************************************************************)
\* Accepted lines that are drawn freely from Lines; later lines are drawn
\* from LateLines.
MaxVaried == 1
\* Accepted lines per session.
MaxHistory == 21
\* Simultaneously active show_interactive_menu invocations.
MaxDepth == 3

(***************************************************************************)
(* Python's str: the characters of a string, and the string methods the    *)
(* shell uses.                                                             *)
(***************************************************************************)
CharAt(s, i) == SubSeq(s, i, i)

\* str.isspace() for one character.
IsSpace(c) == c \in {" ", "\t"}

\* str.lower() for one character (the letters the inputs use).
LowerChar(c) ==
  CASE c = "A" -> "a" [] c = "B" -> "b" [] c = "C" -> "c" [] c = "D" -> "d"
    [] c = "E" -> "e" [] c = "F" -> "f" [] c = "G" -> "g" [] c = "H" -> "h"
    [] c = "I" -> "i" [] c = "J" -> "j" [] c = "K" -> "k" [] c = "L" -> "l"
    [] c = "M" -> "m" [] c = "N" -> "n" [] c = "O" -> "o" [] c = "P" -> "p"
    [] c = "Q" -> "q" [] c = "R" -> "r" [] c = "S" -> "s" [] c = "T" -> "t"
    [] c = "U" -> "u" [] c = "V" -> "v" [] c = "W" -> "w" [] c = "X" -> "x"
    [] c = "Y" -> "y" [] c = "Z" -> "z" [] OTHER -> c

\* Mutant of Lower: the letter case is kept.
KeepCase(s) == s

RECURSIVE LowerFrom(_, _)
LowerFrom(s, i) ==
  IF i > Len(s) THEN "" ELSE LowerChar(CharAt(s, i)) \o LowerFrom(s, i + 1)

\* str.lower()
Lower(s) == LowerFrom(s, 1)

RECURSIVE FirstNonSpace(_, _)
FirstNonSpace(s, i) ==
  IF i > Len(s) \/ ~IsSpace(CharAt(s, i)) THEN i ELSE FirstNonSpace(s, i + 1)

RECURSIVE LastNonSpace(_, _)
LastNonSpace(s, i) ==
  IF i < 1 \/ ~IsSpace(CharAt(s, i)) THEN i ELSE LastNonSpace(s, i - 1)

\* Mutant of Strip: str.lstrip(), which keeps the whitespace at the end.
StripLeading(s) == SubSeq(s, FirstNonSpace(s, 1), Len(s))

\* str.strip()
Strip(s) == SubSeq(s, FirstNonSpace(s, 1), LastNonSpace(s, Len(s)))

RECURSIVE ContainsFrom(_, _, _)
ContainsFrom(s, sub, i) ==
  IF i + Len(sub) - 1 > Len(s) THEN FALSE
  ELSE IF SubSeq(s, i, i + Len(sub) - 1) = sub THEN TRUE
  ELSE ContainsFrom(s, sub, i + 1)

\* sub in s
Contains(s, sub) == ContainsFrom(s, sub, 1)

RECURSIVE SplitFrom(_, _, _, _)
SplitFrom(s, i, word, parts) ==
  IF i > Len(s) THEN (IF word = "" THEN parts ELSE Append(parts, word))
  ELSE IF IsSpace(CharAt(s, i))
    THEN SplitFrom(s, i + 1, "", IF word = "" THEN parts ELSE Append(parts, word))
    ELSE SplitFrom(s, i + 1, word \o CharAt(s, i), parts)

\* str.split(): the words between runs of whitespace.
Split(s) == SplitFrom(s, 1, "", <<>>)

(***************************************************************************)
(* shlex.split(s) (posix, no comments): the scanner's states are           *)
(*   " "  between tokens        "a"  inside an unquoted token               *)
(*   "'"  inside single quotes  "\"" inside double quotes                   *)
(* tok is the token read so far, esc the state an escape returns to ("" if  *)
(* no escape is pending).  The result is [ok, parts]; ok = FALSE is the     *)
(* ValueError (no closing quotation, no escaped character).                 *)
(***************************************************************************)
RECURSIVE ShlexFrom(_, _, _, _, _, _)
ShlexFrom(s, i, state, esc, tok, parts) ==
  IF i > Len(s) THEN
    IF esc # "" \/ state \in {"'", "\""} THEN [ok |-> FALSE, parts |-> <<>>]
    ELSE IF state = "a" THEN [ok |-> TRUE, parts |-> Append(parts, tok)]
    ELSE [ok |-> TRUE, parts |-> parts]
  ELSE LET c == CharAt(s, i) IN
    IF esc # "" THEN
      \* the character after a backslash: inside double quotes the backslash
      \* is kept unless it escapes a quote or a backslash
      IF esc = "\"" /\ c \notin {"\"", "\\"}
        THEN ShlexFrom(s, i + 1, "\"", "", tok \o "\\" \o c, parts)
        ELSE ShlexFrom(s, i + 1, esc, "", tok \o c, parts)
    ELSE IF state = " " THEN
      IF IsSpace(c) THEN ShlexFrom(s, i + 1, " ", "", "", parts)
      ELSE IF c = "\\" THEN ShlexFrom(s, i + 1, "a", "a", "", parts)
      ELSE IF c \in {"'", "\""} THEN ShlexFrom(s, i + 1, c, "", "", parts)
      ELSE ShlexFrom(s, i + 1, "a", "", c, parts)
    ELSE IF state = "a" THEN
      IF IsSpace(c) THEN ShlexFrom(s, i + 1, " ", "", "", Append(parts, tok))
      ELSE IF c = "\\" THEN ShlexFrom(s, i + 1, "a", "a", tok, parts)
      ELSE IF c \in {"'", "\""} THEN ShlexFrom(s, i + 1, c, "", tok, parts)
      ELSE ShlexFrom(s, i + 1, "a", "", tok \o c, parts)
    ELSE IF state = "'" THEN
      IF c = "'" THEN ShlexFrom(s, i + 1, "a", "", tok, parts)
      ELSE ShlexFrom(s, i + 1, "'", "", tok \o c, parts)
    ELSE \* state = "\""
      IF c = "\"" THEN ShlexFrom(s, i + 1, "a", "", tok, parts)
      ELSE IF c = "\\" THEN ShlexFrom(s, i + 1, "\"", "\"", tok, parts)
      ELSE ShlexFrom(s, i + 1, "\"", "", tok \o c, parts)

ShlexSplit(s) == ShlexFrom(s, 1, " ", "", "", <<>>)

(***************************************************************************)
(* InteractiveShell.parse_command                                          *)
(***************************************************************************)
\* Mutant of parse_command: no fallback; a line shlex cannot split gives
\* the empty token.
ParseWithoutFallback(input_text) ==
  LET sh == ShlexSplit(input_text)
  IN IF ~sh.ok \/ sh.parts = <<>> THEN [cmd |-> "", args |-> <<>>]
     ELSE [cmd |-> Lower(sh.parts[1]), args |-> Tail(sh.parts)]

parse_command(input_text) ==
  LET sh == ShlexSplit(input_text)
      parts == IF sh.ok THEN sh.parts ELSE Split(input_text)
  IN IF parts = <<>> THEN [cmd |-> "", args |-> <<>>]
     ELSE [cmd |-> Lower(parts[1]), args |-> Tail(parts)]


(***************************************************************************)
(* The registration calls of main(), in program order: register_command    *)
(* (name, function) and register_alias (alias, command).                   *)
(***************************************************************************)
MainCommandCalls ==
  << <<"system.cpu", "system.monitor_cpu">>,
     <<"system.memory", "system.monitor_memory">>,
     <<"system.processes", "system.list_processes">>,
     <<"system.disk", "system.disk_usage">>,
     <<"system.env", "system.show_environment">>,
     <<"system.whoami", "system.whoami_command">>,
     <<"system.hostname", "system.hostname_command">>,
     <<"system.uptime", "system.uptime_command">>,
     <<"system.date", "system.date_command">>,
     <<"system.which", "system.which_command">>,
     <<"system.kill", "system.kill_command">>,
     <<"network.ip", "network.public_ip">>,
     <<"network.http-check", "network.http_status_checker">>,
     <<"network.port-scan", "network.port_scanner">>,
     <<"network.ping", "network.ping_host">>,
     <<"network.wget", "network.wget_command">>,
     <<"filelab.rename", "filelab.bulk_rename">>,
     <<"filelab.metadata", "filelab.file_metadata">>,
     <<"filelab.tree", "filelab.directory_tree">>,
     <<"filelab.search", "filelab.search_files">>,
     <<"utils.currency", "utils.currency_converter">>,
     <<"utils.password", "utils.password_generator">>,
     <<"utils.markdown", "utils.markdown_renderer">>,
     <<"utils.base64", "utils.base64_converter">>,
     <<"utils.hash", "utils.hash_text">>,
     <<"utils.uuid", "utils.generate_uuid">>,
     <<"data.json-format", "data.json_format">>,
     <<"data.yaml-format", "data.yaml_format">>,
     <<"data.csv-stats", "data.csv_stats">>,
     <<"data.json-query", "data.json_query">>,
     <<"git.status", "git.git_status">>, <<"git.log", "git.git_log">>,
     <<"git.branches", "git.git_branches">>, <<"git.diff", "git.git_diff">>,
     <<"docker.ps", "docker.docker_ps">>,
     <<"docker.images", "docker.docker_images">>,
     <<"docker.stats", "docker.docker_stats">>,
     <<"text.log-analyze", "text.log_analyze">>,
     <<"text.text-stats", "text.text_stats">>,
     <<"text.word-count", "text.word_count">>,
     <<"filesystem.ls", "filesystem.ls_command">>,
     <<"filesystem.cp", "filesystem.cp_command">>,
     <<"filesystem.mv", "filesystem.mv_command">>,
     <<"filesystem.rm", "filesystem.rm_command">>,
     <<"filesystem.mkdir", "filesystem.mkdir_command">>,
     <<"filesystem.touch", "filesystem.touch_command">>,
     <<"filesystem.cat", "filesystem.cat_command">>,
     <<"filesystem.head", "filesystem.head_command">>,
     <<"filesystem.tail", "filesystem.tail_command">>,
     <<"filesystem.grep", "filesystem.grep_command">>,
     <<"filesystem.sort", "filesystem.sort_command">>,
     <<"archive.zip", "archive.zip_command">>,
     <<"archive.unzip", "archive.unzip_command">>,
     <<"archive.tar", "archive.tar_command">>,
     <<"shell.echo", "shell_utils.echo_command">>,
     <<"shell.history", "shell_utils.history_command">>,
     <<"shell.alias", "shell_utils.alias_command">>,
     <<"shell.clear", "shell_utils.clear_command">>,
     <<"shell.sleep", "shell_utils.sleep_command">>,
     <<"shell.pwd", "shell_utils.pwd_command">>,
     <<"shell.cd", "shell_utils.cd_command">>,
     <<"shell.export", "shell_utils.export_command">>,
     <<"shell.printenv", "shell_utils.printenv_command">> >>

MainAliasCalls ==
  << <<"cpu", "system.cpu">>, <<"memory", "system.memory">>,
     <<"mem", "system.memory">>, <<"processes", "system.processes">>,
     <<"ps", "system.processes">>, <<"disk", "system.disk">>,
     <<"env", "system.env">>, <<"whoami", "system.whoami">>,
     <<"hostname", "system.hostname">>, <<"uptime", "system.uptime">>,
     <<"date", "system.date">>, <<"which", "system.which">>,
     <<"kill", "system.kill">>, <<"ip", "network.ip">>,
     <<"http", "network.http-check">>, <<"scan", "network.port-scan">>,
     <<"ping", "network.ping">>, <<"wget", "network.wget">>,
     <<"download", "network.wget">>, <<"rename", "filelab.rename">>,
     <<"metadata", "filelab.metadata">>, <<"tree", "filelab.tree">>,
     <<"search", "filelab.search">>, <<"ls", "filesystem.ls">>,
     <<"dir", "filesystem.ls">>, <<"cp", "filesystem.cp">>,
     <<"copy", "filesystem.cp">>, <<"mv", "filesystem.mv">>,
     <<"move", "filesystem.mv">>, <<"rm", "filesystem.rm">>,
     <<"del", "filesystem.rm">>, <<"mkdir", "filesystem.mkdir">>,
     <<"touch", "filesystem.touch">>, <<"cat", "filesystem.cat">>,
     <<"type", "filesystem.cat">>, <<"head", "filesystem.head">>,
     <<"tail", "filesystem.tail">>, <<"grep", "filesystem.grep">>,
     <<"sort", "filesystem.sort">>, <<"zip", "archive.zip">>,
     <<"unzip", "archive.unzip">>, <<"tar", "archive.tar">>,
     <<"echo", "shell.echo">>, <<"history", "shell.history">>,
     <<"alias", "shell.alias">>, <<"clear", "shell.clear">>,
     <<"cls", "shell.clear">>, <<"sleep", "shell.sleep">>,
     <<"pwd", "shell.pwd">>, <<"cd", "shell.cd">>,
     <<"export", "shell.export">>, <<"printenv", "shell.printenv">>,
     <<"currency", "utils.currency">>, <<"password", "utils.password">>,
     <<"passwd", "utils.password">>, <<"markdown", "utils.markdown">>,
     <<"md", "utils.markdown">>, <<"base64", "utils.base64">>,
     <<"b64", "utils.base64">>, <<"hash", "utils.hash">>,
     <<"uuid", "utils.uuid">>, <<"json-format", "data.json-format">>,
     <<"json", "data.json-format">>, <<"yaml-format", "data.yaml-format">>,
     <<"yaml", "data.yaml-format">>, <<"csv-stats", "data.csv-stats">>,
     <<"csv", "data.csv-stats">>, <<"json-query", "data.json-query">>,
     <<"git", "git.status">>, <<"git-status", "git.status">>,
     <<"git-log", "git.log">>, <<"git-branches", "git.branches">>,
     <<"git-diff", "git.diff">>, <<"docker", "docker.ps">>,
     <<"docker-ps", "docker.ps">>, <<"docker-images", "docker.images">>,
     <<"docker-stats", "docker.stats">>,
     <<"log-analyze", "text.log-analyze">>, <<"log", "text.log-analyze">>,
     <<"text-stats", "text.text-stats">>, <<"word-count", "text.word-count">>,
     <<"wc", "text.word-count">> >>

(***************************************************************************)
(* The tables of show_interactive_menu.  The pictographs that start the    *)
(* category labels and the arrow of the two "back" entries are left out of *)
(* the labels; the code tests the labels only for the words kept here.     *)
(***************************************************************************)
BackToPrompt == "<- Back to Command Prompt"
Back == "<- Back"

CategoryChoices ==
  << "System Commands", "Network Commands", "File Commands",
     "Data Processing", "Git Commands", "Docker Commands",
     "Text & Log Analysis", "Utility Commands", "Help & Info",
     BackToPrompt >>

\* The choices of the selected category; <<>> stands for the final
\* "else: return None".
CommandChoices(categories) ==
  IF Contains(categories, "System")
    THEN <<"cpu", "memory", "processes", "disk", "env", Back>>
  ELSE IF Contains(categories, "Network")
    THEN <<"ip", "http-check", "port-scan", "ping", Back>>
  ELSE IF Contains(categories, "File")
    THEN <<"tree", "metadata", "rename", "search", Back>>
  ELSE IF Contains(categories, "Data")
    THEN <<"json-format", "yaml-format", "csv-stats", "json-query", Back>>
  ELSE IF Contains(categories, "Git")
    THEN <<"git status", "git log", "git branches", "git diff", Back>>
  ELSE IF Contains(categories, "Docker")
    THEN <<"docker ps", "docker images", "docker stats", Back>>
  ELSE IF Contains(categories, "Text")
    THEN <<"log-analyze", "text-stats", "word-count", Back>>
  ELSE IF Contains(categories, "Utility")
    THEN <<"password", "uuid", "currency", "hash", "base64", "markdown", Back>>
  ELSE IF Contains(categories, "Help")
    THEN <<"help", "info", "history", Back>>
  ELSE <<>>

\* What questionary's ask() returns when the selection is cancelled.
None == "None"

(***************************************************************************)
(* The environment: what a caller registers, what the user types, how an   *)
(* invoked operation ends.                                                 *)
(***************************************************************************)
\* register_command calls a caller other than main() makes.
CommandRegs ==
  { <<"system.cpu", "system.monitor_cpu">>,
    <<"system.cpu", "system.monitor_memory">>,
    <<"help", "system.monitor_cpu">> }

\* register_alias calls a caller other than main() makes.
AliasRegs ==
  { <<"cpu", "system.cpu">>, <<"cpu", "exit">>, <<"system.cpu", "exit">> }

\* The lines typed at the prompt.
Lines ==
  { "", "  ", "cpu", " CPU -i B ", "system.cpu", "bogus", "exit", "quit",
    "help", "info", "clear", "history", "menu now", "cpu 'a", "alias c=cpu" }

\* The lines typed once MaxVaried lines have been accepted.
LateLines == { "history", "exit", "  " }

\* How an invoked operation ends: it returns, it raises an Exception with a
\* message, or a KeyboardInterrupt is raised inside it.
Outcomes ==
  { [kind |-> "return", msg |-> ""],
    [kind |-> "Exception", msg |-> "invalid literal for int()"],
    [kind |-> "KeyboardInterrupt", msg |-> ""] }

\* Argument lists used where a property quantifies over arguments.
ArgSamples == { <<>>, <<"-i", "B">> }

(***************************************************************************)
(* State.                                                                  *)
(***************************************************************************)
VARIABLES
  pc,               \* "register": constructed, run() not yet called;
                    \* "prompt": run() waits in Prompt.ask;
                    \* "category", "command": show_interactive_menu waits in
                    \* its first / second questionary.select;
                    \* "stopped": run() has returned
  running,          \* self.running
  command_history,  \* self.command_history
  commands,         \* self.commands
  aliases,          \* self.aliases
  depth,            \* active show_interactive_menu invocations
  choices,          \* the local variable choices of the innermost one
  submitted,        \* the lines read at the prompt, as typed, that had a
                    \* character other than whitespace
  last              \* what the current / last loop iteration did

vars ==
  << pc, running, command_history, commands, aliases, depth, choices,
     submitted, last >>

\* ev:       "none", "empty", "line", "interrupt", "eof", or, before run(),
\*           "register_command" or "register_alias"
\* reg:      the registration call just made: its name and value, and the
\*           dictionary before the call
\* raw:      the line as typed
\* cmd/args: what parse_command returned
\* resolved: cmd of the outermost execute_command call after alias lookup
\* menu_cmd: what show_interactive_menu returned ("" if it was not called)
\* menu:     the traversal of the menu: the last selection made and the
\*           number of show_interactive_menu invocations made
\* branch:   the branch of the innermost execute_command call that ran
\* ret:      "True"/"False": what the outermost execute_command returned;
\*           "KeyboardInterrupt": it raised that; "": it has not returned
\* calls:    the operations invoked, each with how it ended
\* out:      what was printed
NoLast ==
  [ ev |-> "none", raw |-> "", cmd |-> "", args |-> <<>>, resolved |-> "",
    menu_cmd |-> "", branch |-> "", ret |-> "", calls |-> <<>>,
    out |-> <<>>,
    menu |-> [sel |-> "", invocations |-> 0],
    reg |-> [name |-> "", value |-> "", before |-> [k \in {} |-> ""]] ]

\* One console.print / console.clear.
Report(kind, text, rows) == [kind |-> kind, text |-> text, rows |-> rows]

EmptyDict == [k \in {} |-> ""]

(***************************************************************************)
(* __init__, register_command, register_alias, main                        *)
(***************************************************************************)
Init ==
  /\ pc = "register"
  /\ running = TRUE
  /\ command_history = <<>>
  /\ commands = EmptyDict
  /\ aliases = EmptyDict
  /\ depth = 0
  /\ choices = <<>>
  /\ submitted = <<>>
  /\ last = NoLast

\* dict[key] = value
DictSet(dict, key, value) == (key :> value) @@ dict

\* Mutant of register_command: a name that is bound keeps its binding.
RegisterKeepsFirst(registry, name, func) ==
  IF name \in DOMAIN registry THEN registry ELSE DictSet(registry, name, func)

register_command(registry, name, func) == DictSet(registry, name, func)

register_alias(table, alias, command) == DictSet(table, alias, command)

\* Mutant of RegisterAll: the last call of the list is not made.
RegisterAllButLast(calls, dict) ==
  LET made == DOMAIN calls \ {Len(calls)}
      Named(k) == { i \in made : calls[i][1] = k }
      LastCall(k) == CHOOSE i \in Named(k) : \A j \in Named(k) : j <= i
  IN [ k \in DOMAIN dict \cup { calls[i][1] : i \in made } |->
         IF Named(k) # {} THEN calls[LastCall(k)][2] ELSE dict[k] ]

\* The dictionary after the calls register(calls[1][1], calls[1][2]), ...
\* in order: a key holds the value of the last call that names it.
RegisterAll(calls, dict) ==
  LET Named(k) == { i \in DOMAIN calls : calls[i][1] = k }
      LastCall(k) == CHOOSE i \in Named(k) : \A j \in Named(k) : j <= i
  IN [ k \in DOMAIN dict \cup { calls[i][1] : i \in DOMAIN calls } |->
         IF Named(k) # {} THEN calls[LastCall(k)][2] ELSE dict[k] ]

\* self.commands and self.aliases when main() calls run().
MainCommands == RegisterAll(MainCommandCalls, EmptyDict)
MainAliases == RegisterAll(MainAliasCalls, EmptyDict)

\* A caller's register_command(name, func) on a constructed shell.
RegisterCommand(name, func) ==
  /\ pc = "register"
  /\ commands' = register_command(commands, name, func)
  /\ last' = [NoLast EXCEPT !.ev = "register_command",
                            !.reg = [name |-> name, value |-> func,
                                     before |-> commands]]
  /\ UNCHANGED << pc, running, command_history, aliases, depth, choices,
                  submitted >>

\* A caller's register_alias(alias, command) on a constructed shell.
RegisterAlias(alias, command) ==
  /\ pc = "register"
  /\ aliases' = register_alias(aliases, alias, command)
  /\ last' = [NoLast EXCEPT !.ev = "register_alias",
                            !.reg = [name |-> alias, value |-> command,
                                     before |-> aliases]]
  /\ UNCHANGED << pc, running, command_history, commands, depth, choices,
                  submitted >>

\* A caller's run() after its registrations: the banner, then the first
\* test of "while self.running".
Run ==
  /\ pc = "register"
  /\ pc' = IF running THEN "prompt" ELSE "stopped"
  /\ UNCHANGED << running, command_history, commands, aliases, depth,
                  choices, submitted, last >>

\* main(): the registrations on the shell it has just constructed, then
\* run().
Main ==
  /\ pc = "register"
  /\ commands = EmptyDict
  /\ aliases = EmptyDict
  /\ commands' = RegisterAll(MainCommandCalls, commands)
  /\ aliases' = RegisterAll(MainAliasCalls, aliases)
  /\ pc' = IF running THEN "prompt" ELSE "stopped"
  /\ UNCHANGED << running, command_history, depth, choices, submitted, last >>

(***************************************************************************)
(* execute_command.  An effect is what one call does up to its return or   *)
(* up to the point where it waits in show_interactive_menu:                *)
(*   running: self.running afterwards      ret: as in NoLast               *)
(*   calls, out: operations invoked, reports printed                       *)
(*   branch: the branch of execute_command that ran: "exit", "help",       *)
(*     "info", "menu", "clear", "history", "empty", "registry", "unknown"  *)
(*   menu: TRUE if the call now waits in show_interactive_menu             *)
(***************************************************************************)
Effect(branch, run, ret, calls, out) ==
  [ branch |-> branch, running |-> run, ret |-> ret, calls |-> calls,
    out |-> out, menu |-> branch = "menu" /\ ret = "" ]

\* Mutant of Resolve: the alias table is not consulted.
ResolveSkipsAliases(cmd) == cmd

\* Mutant of Resolve: an alias whose target is a built-in verb is not
\* applied.
ResolveSparesBuiltins(cmd) ==
  IF cmd \in DOMAIN aliases
       /\ aliases[cmd] \notin {"help", "info", "menu", "clear", "history",
                                "exit", "quit", ""}
    THEN aliases[cmd] ELSE cmd

\* if cmd in self.aliases: cmd = self.aliases[cmd]
\* Mutant of Resolve: the target is looked up in the alias table once more.
ResolveTransitive(cmd) ==
  IF cmd \in DOMAIN aliases
    THEN IF aliases[cmd] \in DOMAIN aliases
           THEN aliases[aliases[cmd]] ELSE aliases[cmd]
    ELSE cmd

Resolve(cmd) == IF cmd \in DOMAIN aliases THEN aliases[cmd] ELSE cmd

RECURSIVE Str(_)
\* str(i) for i >= 0
Str(i) ==
  LET d == CharAt("0123456789", (i % 10) + 1)
  IN IF i < 10 THEN d ELSE Str(i \div 10) \o d

\* The number of entries the history built-in shows at most.
HistoryShown == 20

\* Mutant of LastSlice: seq[:k], the first k entries.
FirstSlice(seq, k) == SubSeq(seq, 1, IF Len(seq) > k THEN k ELSE Len(seq))

\* seq[-k:]
LastSlice(seq, k) ==
  SubSeq(seq, IF Len(seq) > k THEN Len(seq) - k + 1 ELSE 1, Len(seq))

\* The rows of the table the history built-in prints: (str(i), hist_cmd)
\* for i, hist_cmd in enumerate(self.command_history[-20:], 1).
HistoryRows(history) ==
  LET shown == LastSlice(history, HistoryShown)
  IN [i \in 1..Len(shown) |-> <<Str(i), shown[i]>>]

\* Mutant of HistoryBuiltin: the table is printed but False is returned.
HistoryUnhandled(history) ==
  Effect("history", running, "False", <<>>,
         <<Report("history", "Command History", HistoryRows(history))>>)

\* elif cmd == 'history', with self.command_history = history
HistoryBuiltin(history) ==
  IF history = <<>>
    THEN Effect("history", running, "True", <<>>,
                <<Report("no_history", "No command history yet", <<>>)>>)
    ELSE Effect("history", running, "True", <<>>,
                <<Report("history", "Command History", HistoryRows(history))>>)

\* Mutant of ExitBuiltin: self.running is left as it is.
ExitKeepsRunning ==
  Effect("exit", running, "True", <<>>,
         <<Report("goodbye", "Goodbye!", <<>>)>>)

\* if cmd in ['exit', 'quit']
ExitBuiltin ==
  Effect("exit", FALSE, "True", <<>>, <<Report("goodbye", "Goodbye!", <<>>)>>)

Call(cmd, args, oc) ==
  << [name |-> cmd, func |-> commands[cmd], args |-> args, ends |-> oc.kind] >>

\* Mutant of UnknownCommand: the miss also clears self.running.
UnknownStops(cmd) ==
  Effect("unknown", FALSE, "False", <<>>,
         << Report("unknown", "Unknown command: " \o cmd, <<>>) >>)

\* else: the command is not in the registry
UnknownCommand(cmd) ==
  Effect("unknown", running, "False", <<>>,
         << Report("unknown", "Unknown command: " \o cmd, <<>>),
            Report("hint", "Type 'help' for available commands or 'menu' for interactive menu", <<>>) >>)

\* Mutant of RegistryDispatch: a miss is reported but returns True.
DispatchMissHandled(cmd, args, oc) ==
  IF cmd \in DOMAIN commands THEN
    CASE oc.kind = "return" ->
           Effect("registry", running, "True", Call(cmd, args, oc), <<>>)
      [] oc.kind = "Exception" ->
           Effect("registry", running, "True", Call(cmd, args, oc),
                  <<Report("error", "Error executing command: " \o oc.msg,
                           <<>>)>>)
      [] OTHER ->
           Effect("registry", running, "KeyboardInterrupt",
                  Call(cmd, args, oc), <<>>)
  ELSE [UnknownCommand(cmd) EXCEPT !.ret = "True"]

\* Mutant of RegistryDispatch: no try/except around the call.
DispatchNoCatch(cmd, args, oc) ==
  IF cmd \in DOMAIN commands THEN
    CASE oc.kind = "return" ->
           Effect("registry", running, "True", Call(cmd, args, oc), <<>>)
      [] OTHER ->
           Effect("registry", running, oc.kind, Call(cmd, args, oc), <<>>)
  ELSE UnknownCommand(cmd)

\* Mutant of RegistryDispatch: "except BaseException", which also catches
\* KeyboardInterrupt.
DispatchCatchesAll(cmd, args, oc) ==
  IF cmd \in DOMAIN commands THEN
    CASE oc.kind = "return" ->
           Effect("registry", running, "True", Call(cmd, args, oc), <<>>)
      [] OTHER ->
           Effect("registry", running, "True", Call(cmd, args, oc),
                  <<Report("error", "Error executing command: " \o oc.msg,
                           <<>>)>>)
  ELSE UnknownCommand(cmd)

\* The lookup in the registry and the failure boundary around the call.
\* oc is how the operation ends, if one is invoked.
RegistryDispatch(cmd, args, oc) ==
  IF cmd \in DOMAIN commands THEN
    \* try: self.commands[cmd](args); return True
    \* except Exception as e: print; return True
    CASE oc.kind = "return" ->
           Effect("registry", running, "True", Call(cmd, args, oc), <<>>)
      [] oc.kind = "Exception" ->
           Effect("registry", running, "True", Call(cmd, args, oc),
                  <<Report("error", "Error executing command: " \o oc.msg,
                           <<>>)>>)
      [] OTHER ->
           Effect("registry", running, "KeyboardInterrupt",
                  Call(cmd, args, oc), <<>>)
  ELSE UnknownCommand(cmd)

\* Mutant of ExecuteResolved: the registry is consulted before the
\* built-in verbs.
RegistryFirst(history, cmd, args, oc) ==
  IF cmd \in DOMAIN commands THEN RegistryDispatch(cmd, args, oc)
  ELSE IF cmd \in {"exit", "quit"} THEN ExitBuiltin
  ELSE IF cmd = "help"
    THEN Effect("help", running, "True", <<>>, <<Report("help", "", <<>>)>>)
  ELSE IF cmd = "info"
    THEN Effect("info", running, "True", <<>>, <<Report("info", "", <<>>)>>)
  ELSE IF cmd = "menu" THEN Effect("menu", running, "", <<>>, <<>>)
  ELSE IF cmd = "clear"
    THEN Effect("clear", running, "True", <<>>, <<Report("clear", "", <<>>)>>)
  ELSE IF cmd = "history" THEN HistoryBuiltin(history)
  ELSE IF cmd = "" THEN Effect("empty", running, "True", <<>>, <<>>)
  ELSE UnknownCommand(cmd)

\* execute_command after the alias lookup; history is
\* self.command_history at the time of the call.
ExecuteResolved(history, cmd, args, oc) ==
  IF cmd \in {"exit", "quit"} THEN ExitBuiltin
  ELSE IF cmd = "help"
    THEN Effect("help", running, "True", <<>>, <<Report("help", "", <<>>)>>)
  ELSE IF cmd = "info"
    THEN Effect("info", running, "True", <<>>, <<Report("info", "", <<>>)>>)
  ELSE IF cmd = "menu" THEN Effect("menu", running, "", <<>>, <<>>)
  ELSE IF cmd = "clear"
    THEN Effect("clear", running, "True", <<>>, <<Report("clear", "", <<>>)>>)
  ELSE IF cmd = "history" THEN HistoryBuiltin(history)
  ELSE IF cmd = "" THEN Effect("empty", running, "True", <<>>, <<>>)
  ELSE RegistryDispatch(cmd, args, oc)

execute_command(history, cmd, args, oc) ==
  ExecuteResolved(history, Resolve(cmd), args, oc)

\* Mutant of AfterMenu: the arguments typed after "menu" are passed on.
AfterMenuKeepsArgs(history, menu_cmd, oc) ==
  IF menu_cmd # None /\ menu_cmd # ""
    THEN execute_command(history, menu_cmd, last.args, oc)
    ELSE Effect("menu", running, "True", <<>>, <<>>)

\* if menu_cmd: return self.execute_command(menu_cmd, [])
\* return True
AfterMenu(history, menu_cmd, oc) ==
  IF menu_cmd # None /\ menu_cmd # ""
    THEN execute_command(history, menu_cmd, <<>>, oc)
    ELSE Effect("menu", running, "True", <<>>, <<>>)

(***************************************************************************)
(* run: one iteration of the loop per line, interrupt or end of input; a   *)
(* line that opens the menu is finished by the selections.                 *)
(***************************************************************************)
InterruptHint ==
  Report("interrupt", "Use 'exit' or 'quit' to leave the shell", <<>>)

\* while self.running
LoopTest(run) == IF run THEN "prompt" ELSE "stopped"

\* Mutant of Caught: run prints nothing for what it catches.
CaughtSilently(ret) == <<>>

\* What run prints when the body of its try raised: except
\* KeyboardInterrupt, except Exception.
Caught(ret) ==
  IF ret = "KeyboardInterrupt" THEN <<InterruptHint>>
  ELSE IF ret = "Exception"
    THEN <<Report("unexpected", "Unexpected error: ", <<>>)>>
  ELSE <<>>

\* Mutant of OperationEffect: an invoked operation adds an entry.
OperationRegisters(dict, calls) ==
  IF calls = <<>> THEN dict ELSE DictSet(dict, "added", "by.operation")

\* What the invoked operations do to a dictionary of the shell: nothing.
\* main() passes the shell to no operation and no command module refers to
\* a shell (shell_utils.alias_command and history_command only print).
OperationEffect(dict, calls) == dict

\* The rest of the iteration once execute_command has produced eff: either
\* it waits in the menu, or it returned or raised; run catches what it
\* raised and goes on to the test of the loop.
Finish(eff, entry) ==
  /\ running' = eff.running
  /\ choices' = <<>>
  /\ commands' = OperationEffect(commands, eff.calls)
  /\ aliases' = OperationEffect(aliases, eff.calls)
  /\ IF eff.menu
       THEN /\ pc' = "category"
            /\ depth' = 1
            /\ last' = [entry EXCEPT !.branch = eff.branch, !.ret = "",
                                     !.menu = [sel |-> "", invocations |-> 1]]
       ELSE /\ pc' = LoopTest(eff.running)
            /\ depth' = 0
            /\ last' = [entry EXCEPT !.branch = eff.branch,
                                     !.ret = eff.ret,
                                     !.calls = eff.calls,
                                     !.out = eff.out \o Caught(eff.ret)]

\* Which lines the user may type now (the bounds of the model).
InputAllowed(raw) ==
  /\ Len(command_history) < MaxHistory
  /\ IF Len(command_history) < MaxVaried THEN raw \in Lines
                                          ELSE raw \in LateLines

\* Mutant of AppendHistory: the line is inserted in front.
InsertHistoryInFront(history, user_input) == <<user_input>> \o history

\* Mutant of AppendHistory: the line replaces the history.
ReplaceHistory(history, user_input) == <<user_input>>

\* self.command_history.append(user_input)
AppendHistory(history, user_input) == Append(history, user_input)

\* strip() of every line the user can type and parse_command of every
\* stripped line, evaluated once instead of once per step.
Typed == Lines \cup LateLines
StripOf == [raw \in Typed |-> Strip(raw)]
\* Whether a typed line has no character other than whitespace.
BlankOf == [raw \in Typed |-> \A i \in 1..Len(raw) : IsSpace(CharAt(raw, i))]
ParseOf == [user_input \in { Strip(raw) : raw \in Typed } |->
              parse_command(user_input)]

\* Mutant of IsEmpty: no line counts as empty.
NeverEmpty(user_input) == FALSE

\* if not user_input
IsEmpty(user_input) == user_input = ""

\* Prompt.ask(...) returned raw.
ReadLine(raw, oc) ==
  /\ pc = "prompt"
  /\ InputAllowed(raw)
  /\ LET user_input == StripOf[raw] IN
       IF IsEmpty(user_input)
         THEN /\ last' = [NoLast EXCEPT !.ev = "empty", !.raw = raw]
              /\ pc' = LoopTest(running)
              /\ UNCHANGED << running, command_history, commands, aliases,
                              depth, choices >>
         ELSE LET history == AppendHistory(command_history, user_input)
                  p == ParseOf[user_input]
              IN /\ command_history' = history
                 /\ Finish(execute_command(history, p.cmd, p.args, oc),
                           [NoLast EXCEPT !.ev = "line", !.raw = raw,
                                          !.cmd = p.cmd, !.args = p.args,
                                          !.resolved = Resolve(p.cmd)])
  /\ submitted' = IF BlankOf[raw] THEN submitted ELSE Append(submitted, raw)

\* Mutant of InterruptAtPrompt: the interrupt ends the session.
InterruptStops ==
  /\ pc = "prompt"
  /\ running' = FALSE
  /\ last' = [NoLast EXCEPT !.ev = "interrupt", !.out = <<InterruptHint>>]
  /\ pc' = "stopped"
  /\ UNCHANGED << command_history, commands, aliases, depth, choices,
                  submitted >>

\* Prompt.ask(...) raised KeyboardInterrupt: except KeyboardInterrupt.
InterruptAtPrompt ==
  /\ pc = "prompt"
  /\ last' = [NoLast EXCEPT !.ev = "interrupt", !.out = <<InterruptHint>>]
  /\ pc' = LoopTest(running)
  /\ UNCHANGED << running, command_history, commands, aliases, depth,
                  choices, submitted >>

\* Mutant of EndOfInput: the handler prints and continues the loop.
EndOfInputContinues ==
  /\ pc = "prompt"
  /\ last' = [NoLast EXCEPT !.ev = "eof",
                            !.out = <<Report("goodbye", "Goodbye!", <<>>)>>]
  /\ pc' = LoopTest(running)
  /\ UNCHANGED << running, command_history, commands, aliases, depth,
                  choices, submitted >>

\* Prompt.ask(...) raised EOFError: except EOFError.
EndOfInput ==
  /\ pc = "prompt"
  /\ running' = FALSE
  /\ last' = [NoLast EXCEPT !.ev = "eof",
                            !.out = <<Report("goodbye", "Goodbye!", <<>>)>>]
  /\ pc' = "stopped"
  /\ UNCHANGED << command_history, commands, aliases, depth, choices,
                  submitted >>

(***************************************************************************)
(* show_interactive_menu, one action per selection.                        *)
(***************************************************************************)
Range(seq) == { seq[i] : i \in DOMAIN seq }

\* The first questionary.select(...).ask() returned categories.  A None
\* here is the result of every active invocation ("return
\* self.show_interactive_menu()"), so execute_command returns True.
SelectCategory(categories) ==
  /\ pc = "category"
  /\ LET entry == [last EXCEPT !.menu.sel = categories]
     IN IF categories = None \/ categories = BackToPrompt
             \/ CommandChoices(categories) = <<>>
          THEN Finish(AfterMenu(command_history, None,
                                   CHOOSE oc \in Outcomes : TRUE),
                      [entry EXCEPT !.menu_cmd = None])
          ELSE /\ pc' = "command"
               /\ choices' = CommandChoices(categories)
               /\ last' = entry
               /\ UNCHANGED << running, commands, aliases, depth >>
  /\ UNCHANGED << command_history, submitted >>

\* Mutant of SelectCommand: only a cancelled selection restarts category
\* selection; "back" is returned like a command.
SelectCommandReturnsBack(command, oc) ==
  /\ pc = "command"
  /\ command \in Range(choices) \cup {None}
  /\ IF command = None
       THEN /\ depth < MaxDepth
            /\ depth' = depth + 1
            /\ pc' = "category"
            /\ choices' = <<>>
            /\ last' = [last EXCEPT !.menu.sel = command,
                                    !.menu.invocations = @ + 1]
            /\ UNCHANGED << running, commands, aliases >>
       ELSE Finish(AfterMenu(command_history, command, oc),
                   [last EXCEPT !.menu.sel = command, !.menu_cmd = command])
  /\ UNCHANGED << command_history, submitted >>

\* Mutant of SelectCommand: every selection restarts category selection.
SelectCommandRestarts(command, oc) ==
  /\ pc = "command"
  /\ command \in Range(choices) \cup {None}
  /\ depth < MaxDepth
  /\ depth' = depth + 1
  /\ pc' = "category"
  /\ choices' = <<>>
  /\ last' = [last EXCEPT !.menu.sel = command, !.menu.invocations = @ + 1]
  /\ UNCHANGED << running, commands, aliases, command_history, submitted >>

\* The second questionary.select(...).ask() returned command.
SelectCommand(command, oc) ==
  /\ pc = "command"
  /\ command \in Range(choices) \cup {None}
  /\ IF command = None \/ command = Back
       THEN /\ depth < MaxDepth
            /\ depth' = depth + 1
            /\ pc' = "category"
            /\ choices' = <<>>
            /\ last' = [last EXCEPT !.menu.sel = command,
                                    !.menu.invocations = @ + 1]
            /\ UNCHANGED << running, commands, aliases >>
       ELSE Finish(AfterMenu(command_history, command, oc),
                   [last EXCEPT !.menu.sel = command, !.menu_cmd = command])
  /\ UNCHANGED << command_history, submitted >>

Next ==
  \/ \E r \in CommandRegs : RegisterCommand(r[1], r[2])
  \/ \E r \in AliasRegs : RegisterAlias(r[1], r[2])
  \/ Run
  \/ Main
  \/ \E raw \in Typed, oc \in Outcomes : ReadLine(raw, oc)
  \/ InterruptAtPrompt
  \/ EndOfInput
  \/ \E c \in Range(CategoryChoices) \cup {None} : SelectCategory(c)
  \/ \E c \in Range(choices) \cup {None}, oc \in Outcomes : SelectCommand(c, oc)

Spec == Init /\ [][Next]_vars

\* The user at the menu: ask() blocks until a selection is made, and the
\* selections of one traversal are finitely many, that is, the user does not
\* choose "back" or cancel at command selection for ever.
MenuFairness ==
  /\ WF_vars(\E c \in Range(CategoryChoices) \cup {None} : SelectCategory(c))
  /\ SF_vars(\E c \in Range(choices) \ {Back}, oc \in Outcomes :
               SelectCommand(c, oc))

FairSpec == Spec /\ MenuFairness

(***************************************************************************)
(* Properties.                                                             *)
(***************************************************************************)
\* The session main() configures.
ConfiguredByMain == commands = MainCommands /\ aliases = MainAliases

\* run() has been called.
Started == pc # "register"

\* The iteration of the last line is over (it does not wait in the menu).
LineDone == last.ev = "line" /\ pc \notin {"category", "command"}

\* The token of the innermost execute_command call of the last line.
LastToken ==
  IF last.menu_cmd \notin {"", None} THEN last.menu_cmd ELSE last.cmd

\* The reports of one kind among those printed.
Reports(out, kind) == { i \in DOMAIN out : out[i].kind = kind }

ReservedVerbs == {"help", "info", "menu", "clear", "history", "exit", "quit"}
BuiltinVerbs == ReservedVerbs \cup {""}

\* The branch of execute_command that is the built-in of a verb.
BuiltinBranch(verb) ==
  IF verb \in {"exit", "quit"} THEN "exit"
  ELSE IF verb = "" THEN "empty" ELSE verb

C2_UnknownCommand ==
  ( /\ LineDone
    /\ LastToken \notin DOMAIN aliases
    /\ LastToken \notin BuiltinVerbs
    /\ LastToken \notin DOMAIN commands )
  => /\ last.ret = "False"
     /\ Cardinality(Reports(last.out, "unknown")) = 1
     /\ \A i \in Reports(last.out, "unknown") :
          last.out[i].text = "Unknown command: " \o LastToken
     /\ Reports(last.out, "error") = {}
     /\ last.calls = <<>>
     /\ running
     /\ pc = "prompt"

\* C2 witness: "bogus" was typed and reported as unknown.
C2_Witness ==
  /\ LineDone
  /\ last.cmd = "bogus"
  /\ last.ret = "False"
  /\ Cardinality(Reports(last.out, "unknown")) = 1

\* C3: command_history holds exactly the lines read at the prompt that were
\* not empty (after strip(), as the loop tests them), in the order they
\* were submitted, whatever each of them resolved to.
C3_HistoryOrder ==
  /\ Len(command_history) = Len(submitted)
  /\ \A i \in 1..Len(submitted) : command_history[i] = Strip(submitted[i])

\* C3 witness: three lines were accepted, the first an unknown command, and
\* the operation of the last one failed or was interrupted.
C3_Witness ==
  /\ Len(command_history) >= 3
  /\ command_history[1] = "bogus"
  /\ LineDone
  /\ last.calls # <<>>
  /\ last.calls[1].ends # "return"

\* What the history built-in prints for the history h: a notice and no rows
\* if h is empty, else a table of min(len(h), 20) rows, the last entries of
\* h in their order, numbered from 1.
ShowsLastEntries(out, h) ==
  /\ Len(out) = 1
  /\ IF h = <<>>
       THEN out[1].kind = "no_history" /\ out[1].rows = <<>>
       ELSE /\ out[1].kind = "history"
            /\ Len(out[1].rows) = (IF Len(h) < 20 THEN Len(h) ELSE 20)
            /\ \A i \in 1..Len(out[1].rows) :
                 out[1].rows[i]
                   = <<Str(i), h[Len(h) - Len(out[1].rows) + i]>>

\* C4: the history built-in shows min(len(command_history), 20) rows, the
\* last entries of command_history in their order, and a notice without
\* rows when the history is empty: both for the built-in as it would run in
\* the current state and for the display the last line produced.
C4_HistoryDisplay ==
  /\ ShowsLastEntries(HistoryBuiltin(command_history).out, command_history)
  /\ (LineDone /\ last.branch = "history")
       => ShowsLastEntries(last.out, command_history)

\* C4 witness: the built-in ran with more than 20 entries, the oldest of
\* which differs from the rest, and showed 20 rows.
C4_Witness ==
  /\ LineDone
  /\ last.branch = "history"
  /\ Len(command_history) > 20
  /\ command_history[1] # command_history[2]
  /\ Len(last.out[1].rows) = 20

\* C5 as stated: in the session main() configures, a reserved verb typed at
\* the prompt runs its built-in and no registered operation.
C5_BuiltinsNotOverridable ==
  ( /\ ConfiguredByMain
    /\ LineDone
    /\ last.cmd \in ReservedVerbs
    /\ last.menu_cmd \in {"", None} )
  => /\ last.branch = BuiltinBranch(last.cmd)
     /\ last.calls = <<>>

\* C6: when the token resolves to a registry key and the operation raises
\* an Exception, execute_command prints one error report and returns True,
\* self.running stays true and the loop prompts again.
C6_OperationFailureHandled ==
  ( /\ LineDone
    /\ last.calls # <<>>
    /\ last.calls[1].ends = "Exception" )
  => /\ last.ret = "True"
     /\ Cardinality(Reports(last.out, "error")) = 1
     /\ Len(last.out) = 1
     /\ running
     /\ pc = "prompt"

\* C6 witness: the operation of the last line raised an Exception.
C6_Witness ==
  /\ LineDone
  /\ Len(last.calls) = 1
  /\ last.calls[1].ends = "Exception"
  /\ last.branch = "registry"
  /\ pc = "prompt"

C8_ExitStops ==
  /\ (LineDone /\ last.resolved \in {"exit", "quit"})
       => (~running /\ last.ret = "True" /\ pc = "stopped")
  /\ pc = "stopped" => ~ENABLED Next

\* C8 witness: quit was typed and the session stopped.
C8_Witness ==
  /\ LineDone
  /\ last.cmd = "quit"
  /\ last.branch = "exit"
  /\ pc = "stopped"
  /\ ~running

\* C9: end of input at the prompt stops the session as exit does:
\* self.running becomes False and run() returns; nothing is appended to
\* command_history and nothing is dispatched in that iteration.
C9_EndOfInputStops ==
  [][ (pc = "prompt" /\ last'.ev = "eof")
        => /\ running' = FALSE
           /\ pc' = "stopped"
           /\ command_history' = command_history
           /\ last'.calls = <<>>
           /\ last'.branch = "" ]_vars

\* C9 witness: the session ended by end of input after a line.
C9_Witness ==
  /\ last.ev = "eof"
  /\ pc = "stopped"
  /\ command_history # <<>>

\* C10: an interrupt at the prompt leaves the session running: self.running
\* stays true, command_history is unchanged, nothing is dispatched, the
\* hint is printed and the loop prompts again.
C10_InterruptReprompts ==
  [][ (pc = "prompt" /\ last'.ev = "interrupt")
        => /\ running /\ running'
           /\ pc' = "prompt"
           /\ command_history' = command_history
           /\ last'.calls = <<>>
           /\ last'.branch = ""
           /\ last'.out = <<InterruptHint>> ]_vars

\* C10 witness: an interrupt arrived at the prompt after a line.
C10_Witness ==
  /\ last.ev = "interrupt"
  /\ pc = "prompt"
  /\ command_history # <<>>

\* C11: a line that is empty or holds only whitespace appends nothing to
\* command_history, is not parsed and not dispatched (no token, no branch of
\* execute_command, no operation, no report), and the loop prompts again
\* with running, command_history, commands and aliases unchanged.
C11_BlankLineNoOp ==
  [][ (pc = "prompt" /\ last'.ev \in {"empty", "line"} /\ BlankOf[last'.raw])
        => /\ command_history' = command_history
           /\ running' = running
           /\ commands' = commands
           /\ aliases' = aliases
           /\ pc' = "prompt"
           /\ last'.ev = "empty"
           /\ last'.cmd = "" /\ last'.args = <<>>
           /\ last'.branch = "" /\ last'.ret = ""
           /\ last'.calls = <<>>
           /\ last'.out = <<>> ]_vars

\* C11 witness: a whitespace-only line was read after a line was accepted.
C11_Witness ==
  /\ last.ev = "empty"
  /\ last.raw = "  "
  /\ command_history # <<>>
  /\ pc = "prompt"

\* C12: register_command on a name that is already bound raises nothing and
\* replaces the binding: right after register_command(n, f2) the registry
\* binds n to f2 whatever it bound n to before, binds every other name as
\* before, and has no other new key; dispatching n (when n is no alias key
\* and no built-in verb) invokes f2 and nothing else; and if run() is
\* called then and the first line resolves to n, the operation invoked is
\* f2.
C12_LastWriteWins ==
  /\ [] ( pc = "register" =>
            \A r \in CommandRegs : ENABLED RegisterCommand(r[1], r[2]) )
  /\ [] ( (pc = "register" /\ last.ev = "register_command") =>
            LET n == last.reg.name
                f2 == last.reg.value
                before == last.reg.before
            IN /\ n \in DOMAIN commands /\ commands[n] = f2
               /\ DOMAIN commands = DOMAIN before \cup {n}
               /\ \A k \in DOMAIN before \ {n} : commands[k] = before[k]
               /\ (n \notin DOMAIN aliases /\ n \notin BuiltinVerbs) =>
                    \A args \in ArgSamples, oc \in Outcomes :
                      execute_command(command_history, n, args, oc).calls
                        = << [ name |-> n, func |-> f2, args |-> args,
                               ends |-> oc.kind ] >> )
  /\ [][ ( /\ last.ev = "register_command"
           /\ last'.ev = "line"
           /\ last'.resolved = last.reg.name
           /\ last'.calls # <<>> )
         => /\ Len(last'.calls) = 1
            /\ last'.calls[1].name = last.reg.name
            /\ last'.calls[1].func = last.reg.value ]_vars

\* C12 witness: a name bound to one operation was registered again with
\* another one, while another name was bound too.
C12_Witness ==
  /\ pc = "register"
  /\ last.ev = "register_command"
  /\ last.reg.name \in DOMAIN last.reg.before
  /\ last.reg.before[last.reg.name] # last.reg.value
  /\ DOMAIN last.reg.before # {last.reg.name}
  /\ commands[last.reg.name] = last.reg.value

\* The entries of the category lists other than "back".
MenuEntries ==
  UNION { Range(CommandChoices(c)) : c \in Range(CategoryChoices) } \ {Back}

\* The menu is open: show_interactive_menu waits for a selection.
InMenu == pc \in {"category", "command"}

C14_MenuConsistent ==
  ConfiguredByMain =>
    /\ \A entry \in MenuEntries, oc \in Outcomes :
         execute_command(command_history, entry, <<>>, oc).branch # "unknown"
    /\ (LineDone /\ last.menu_cmd \in MenuEntries) =>
         (last.branch # "unknown" /\ Reports(last.out, "unknown") = {})

C16_OnlyExitOrEofStops ==
  /\ [] (pc = "stopped" => ~running)
  /\ [][ (running /\ ~running') =>
           \/ last'.ev = "eof"
           \/ /\ last'.ev = "line"
              /\ last'.branch = "exit"
              /\ Resolve(IF last'.menu_cmd \in {"", None}
                           THEN last'.cmd ELSE last'.menu_cmd)
                   \in {"exit", "quit"} ]_vars
  /\ [][ (pc # "stopped" /\ pc' = "stopped") => ~running' ]_vars

\* C16 witness: after a line that shlex cannot split, the operation of a
\* later line was interrupted, and the session is still running at the
\* prompt.
C16_Witness ==
  /\ LineDone
  /\ Len(command_history) >= 2
  /\ command_history[1] = "cpu 'a"
  /\ last.ret = "KeyboardInterrupt"
  /\ running
  /\ pc = "prompt"

\* C17 as stated: every report of an unknown command contains the token,
\* and every report of a failed operation contains the name of the command
\* that failed: the token dispatched or the name it is registered under.
C17_ErrorsNameCommand ==
  LineDone =>
    /\ \A i \in Reports(last.out, "unknown") :
         Contains(last.out[i].text, LastToken)
    /\ \A i \in Reports(last.out, "error") :
         \/ Contains(last.out[i].text, LastToken)
         \/ \E c \in DOMAIN last.calls :
              Contains(last.out[i].text, last.calls[c].name)

\* C18: the transitions of the menu, for every selection at either level.
\* At category selection: "back" or a cancelled selection ends the
\* traversal with None; a category opens command selection on its list,
\* which offers "back".  At command selection: "back" or a cancelled
\* selection restarts category selection in a further invocation and
\* returns nothing yet; any other entry ends the traversal and is the value
\* returned.
C18_MenuTransitions ==
  /\ [] (pc = "command" => Back \in Range(choices))
  /\ [][ pc = "category" =>
           IF last'.menu.sel \in {None, BackToPrompt}
             THEN /\ last'.menu_cmd = None
                  /\ pc' \notin {"category", "command"}
                  /\ depth' = 0
             ELSE /\ pc' = "command"
                  /\ choices' = CommandChoices(last'.menu.sel)
                  /\ last'.menu_cmd = ""
                  /\ depth' = depth ]_vars
  /\ [][ pc = "command" =>
           IF last'.menu.sel \in {None, Back}
             THEN /\ pc' = "category"
                  /\ last'.menu_cmd = ""
                  /\ last'.menu.invocations = last.menu.invocations + 1
                  /\ depth' = depth + 1
             ELSE /\ last'.menu.sel \in Range(choices)
                  /\ last'.menu_cmd = last'.menu.sel
                  /\ pc' \notin {"category", "command"}
                  /\ depth' = 0 ]_vars

\* C18 witness: a traversal in which command selection was left by "back"
\* once and the entry cpu of the System list was chosen then has returned
\* cpu.
C18_Witness ==
  /\ LineDone
  /\ last.menu.invocations = 2
  /\ last.menu.sel = "cpu"
  /\ last.menu_cmd = "cpu"
  /\ depth = 0

\* The levels of the menu: category selection and command selection.
MenuLevels == 2

\* C19 as stated: however many times "back" is chosen at command selection,
\* the number of active show_interactive_menu invocations stays within the
\* bound the two menu levels give.
C19_DepthBounded == depth <= MenuLevels

\* C20: the step that ends a traversal of the menu opened by the built-in
\* menu.  If show_interactive_menu returned None, execute_command returns
\* True, invokes nothing, prints nothing and changes nothing: running,
\* command_history and the tables are as before and the loop prompts again.
\* If it returned a command, the result is that of execute_command on that
\* command with an empty argument list: every operation invoked gets no
\* arguments, whatever was typed after "menu".
C20_MenuBuiltin ==
  [][ (InMenu /\ ~InMenu') =>
        /\ last'.cmd = last.cmd /\ last'.args = last.args
        /\ command_history' = command_history
        /\ commands' = commands /\ aliases' = aliases
        /\ IF last'.menu_cmd = None
             THEN /\ last'.ret = "True"
                  /\ last'.branch = "menu"
                  /\ last'.calls = <<>>
                  /\ last'.out = <<>>
                  /\ running' = running
                  /\ pc' = "prompt"
             ELSE /\ last'.menu_cmd \in Range(choices)
                  /\ \A c \in DOMAIN last'.calls :
                       /\ last'.calls[c].args = <<>>
                       /\ last'.calls[c].name = Resolve(last'.menu_cmd)
                  /\ \E oc \in Outcomes :
                       LET eff == execute_command(command_history,
                                                  last'.menu_cmd, <<>>, oc)
                       IN /\ last'.ret = eff.ret
                          /\ last'.branch = eff.branch
                          /\ last'.calls = eff.calls
                          /\ last'.out = eff.out \o Caught(eff.ret)
                          /\ running' = eff.running ]_vars

\* C20 witness: "menu now" was typed, the menu returned cpu, and the
\* operation behind cpu was invoked without arguments.
C20_Witness ==
  /\ LineDone
  /\ last.cmd = "menu"
  /\ last.args = <<"now">>
  /\ last.menu_cmd = "cpu"
  /\ Len(last.calls) = 1
  /\ last.calls[1].args = <<>>
  /\ last.ret = "True"

\* What execute_command does on a built-in verb that is no alias key, up to
\* its return or to the point where the menu opens: the branch of the verb
\* runs and no operation is invoked.  Evaluated in every configuration of
\* the tables and of self.running, with a history of at most one entry.
RunsBuiltin ==
  Len(command_history) <= 1 =>
    \A verb \in BuiltinVerbs \ DOMAIN aliases :
      \A args \in ArgSamples, oc \in Outcomes :
        LET eff == execute_command(command_history, verb, args, oc)
        IN /\ eff.branch = BuiltinBranch(verb)
           /\ eff.calls = <<>>
           /\ IF verb = "menu" THEN eff.menu ELSE eff.ret = "True"

\* C21 as stated: a line whose token is a built-in verb and no alias key
\* runs the built-in, and execute_command returns True whatever the
\* arguments and whatever is selected in the menu.
C21_BuiltinsHandled ==
  /\ RunsBuiltin
  /\ (LineDone /\ last.cmd \in BuiltinVerbs \ DOMAIN aliases) =>
       last.ret = "True"

\* C21 amended: the same, except that the built-in menu, when
\* show_interactive_menu returns a command, returns what execute_command
\* returns for that command: False if it is unknown, and no value if the
\* operation invoked is interrupted.
C21_BuiltinsHandledButMenu ==
  /\ RunsBuiltin
  /\ (LineDone /\ last.cmd \in BuiltinVerbs \ DOMAIN aliases) =>
       IF last.cmd = "menu" /\ last.menu_cmd \notin {"", None}
         THEN /\ last.ret = "False" <=> last.branch = "unknown"
              /\ last.ret = "KeyboardInterrupt" <=>
                   \E c \in DOMAIN last.calls :
                     last.calls[c].ends = "KeyboardInterrupt"
              /\ last.ret \in {"True", "False", "KeyboardInterrupt"}
         ELSE /\ last.ret = "True"
              /\ last.branch = BuiltinBranch(last.cmd)
              /\ last.calls = <<>>

\* C21 witness: "menu now" was typed, the menu was left by "back" at
\* category selection after a "back" at command selection, and
\* execute_command returned True.
C21_Witness ==
  /\ LineDone
  /\ last.cmd = "menu"
  /\ last.args = <<"now">>
  /\ "menu" \notin DOMAIN aliases
  /\ last.menu_cmd = None
  /\ last.menu.invocations >= 2
  /\ last.ret = "True"

\* C22: the built-in verbs are tested before the registry.  A name that is
\* a built-in verb and a registry key, and no alias key, runs the built-in
\* and invokes nothing; and in every dispatch, typed or chosen in the menu,
\* the registry is consulted (an operation invoked, or the command reported
\* unknown) only if the token after alias lookup is no built-in verb.
C22_BuiltinsBeforeRegistry ==
  /\ Len(command_history) <= 1 =>
       \A verb \in (BuiltinVerbs \cap DOMAIN commands) \ DOMAIN aliases :
         \A args \in ArgSamples, oc \in Outcomes :
           LET eff == execute_command(command_history, verb, args, oc)
           IN eff.branch = BuiltinBranch(verb) /\ eff.calls = <<>>
  /\ LineDone =>
       LET tok == Resolve(LastToken)
       IN /\ tok \in BuiltinVerbs =>
               (last.branch = BuiltinBranch(tok) /\ last.calls = <<>>)
          /\ last.branch \in {"registry", "unknown"} =>
               tok \notin BuiltinVerbs
          /\ last.calls # <<>> =>
               (last.branch = "registry" /\ tok \in DOMAIN commands)

\* C22 witness: help is a registry key and no alias key, "help" was typed,
\* and the built-in ran without invoking the operation registered as help.
C22_Witness ==
  /\ LineDone
  /\ last.cmd = "help"
  /\ "help" \in DOMAIN commands
  /\ "help" \notin DOMAIN aliases
  /\ last.branch = "help"
  /\ last.calls = <<>>
  /\ last.ret = "True"

\* Tokens used where a property quantifies over tokens.
TokenSamples == BuiltinVerbs \cup {"cpu", "system.cpu", "bogus", "http-check"}

\* C23: the alias lookup comes first and changes only alias keys.  A token
\* that is no alias key is dispatched as it is (a built-in verb runs its
\* built-in); an alias key is replaced by its target before the built-in
\* verbs are tested, so an alias of a built-in verb runs that built-in, and
\* a line that is an alias of exit or quit stops the session.
C23_AliasBeforeBuiltins ==
  /\ Len(command_history) <= 1 =>
       \A args \in ArgSamples, oc \in Outcomes :
         /\ \A tok \in TokenSamples \ DOMAIN aliases :
              /\ Resolve(tok) = tok
              /\ execute_command(command_history, tok, args, oc)
                   = ExecuteResolved(command_history, tok, args, oc)
         /\ \A a \in DOMAIN aliases :
              aliases[a] \in BuiltinVerbs =>
                execute_command(command_history, a, args, oc).branch
                  = BuiltinBranch(aliases[a])
  /\ (LineDone /\ last.menu_cmd = "") =>
       IF last.cmd \in DOMAIN aliases
         THEN /\ last.resolved = aliases[last.cmd]
              /\ aliases[last.cmd] \in BuiltinVerbs =>
                   last.branch = BuiltinBranch(aliases[last.cmd])
              /\ aliases[last.cmd] \in {"exit", "quit"} =>
                   (~running /\ pc = "stopped" /\ last.ret = "True")
         ELSE /\ last.resolved = last.cmd
              /\ last.cmd \in BuiltinVerbs =>
                   last.branch = BuiltinBranch(last.cmd)

\* C23 witness: cpu is an alias of exit; "cpu" was typed with arguments and
\* the session stopped.
C23_Witness ==
  /\ LineDone
  /\ last.cmd = "cpu"
  /\ last.args # <<>>
  /\ "cpu" \in DOMAIN aliases
  /\ aliases["cpu"] = "exit"
  /\ last.branch = "exit"
  /\ ~running
  /\ pc = "stopped"

\* First words in several spellings, each with its lower-case form, and
\* rests of a line, each with the words it holds and whether its quoting is
\* well formed.
FirstWordSamples ==
  { [word |-> "cpu", lower |-> "cpu"], [word |-> "CPU", lower |-> "cpu"],
    [word |-> "Cpu", lower |-> "cpu"],
    [word |-> "JSON-Format", lower |-> "json-format"] }

RestSamples ==
  { [rest |-> "", words |-> <<>>, ok |-> TRUE],
    [rest |-> " -i B", words |-> <<"-i", "B">>, ok |-> TRUE],
    [rest |-> "  File.TXT   Other", words |-> <<"File.TXT", "Other">>,
     ok |-> TRUE],
    [rest |-> " \"A b\" C", words |-> <<"A b", "C">>, ok |-> TRUE],
    [rest |-> " 'x", words |-> <<"'x">>, ok |-> FALSE],
    [rest |-> " \"A B", words |-> <<"\"A", "B">>, ok |-> FALSE] }

UpperLetters ==
  { CharAt("ABCDEFGHIJKLMNOPQRSTUVWXYZ", i) : i \in 1..26 }

\* parse_command on the sample lines: the token is the first word in lower
\* case, the arguments are the other words as typed, in their order; so two
\* lines that differ in the letter case of the first word parse alike.
ParsesSamples ==
  \A w \in FirstWordSamples, r \in RestSamples :
    LET p == parse_command(w.word \o r.rest)
    IN /\ p.cmd = w.lower
       /\ p.args = r.words
       /\ \A v \in FirstWordSamples :
            v.lower = w.lower => parse_command(v.word \o r.rest) = p

\* C24: the token parse_command returns is the first word in lower case
\* and the arguments are the remaining words, case and order kept: on the
\* sample lines, and on every line read at the prompt, where the token has
\* no upper-case letter, the operation invoked receives the arguments as
\* parsed, and the dispatch is that of the lower-case token.
C24_ParseCaseInsensitive ==
  /\ ParsesSamples
  /\ LineDone =>
       /\ \A i \in 1..Len(last.cmd) : CharAt(last.cmd, i) \notin UpperLetters
       /\ last.menu_cmd = "" =>
            \A c \in DOMAIN last.calls : last.calls[c].args = last.args
       /\ last.raw = " CPU -i B " =>
            (last.cmd = "cpu" /\ last.args = <<"-i", "B">>
               /\ last.resolved = Resolve("cpu"))

\* C24 witness: " CPU -i B " was typed and the operation behind the alias
\* cpu was invoked with the arguments -i and B.
C24_Witness ==
  /\ LineDone
  /\ last.raw = " CPU -i B "
  /\ last.cmd = "cpu"
  /\ Len(last.calls) = 1
  /\ last.calls[1].name = "system.cpu"
  /\ last.calls[1].args = <<"-i", "B">>

\* On the sample lines shlex.split fails exactly on those with an unclosed
\* quote, and for them parse_command returns the whitespace-separated
\* words, the first in lower case.
FallsBackOnSamples ==
  \A w \in FirstWordSamples, r \in RestSamples :
    LET line == w.word \o r.rest
        p == parse_command(line)
    IN /\ ShlexSplit(line).ok = r.ok
       /\ ~r.ok => /\ Split(line) = <<w.word>> \o r.words
                   /\ p.cmd = w.lower
                   /\ p.args = Tail(Split(line))

\* C25: parse_command returns a token and arguments for every line: the
\* fallback on the sample lines; a line read at the prompt with an unclosed
\* quote is dispatched on the token and the arguments of the fallback; and
\* every accepted line reaches the dispatcher.
C25_ParseFallsBack ==
  /\ FallsBackOnSamples
  /\ LineDone =>
       /\ last.branch # "" /\ last.ret # ""
       /\ last.raw = "cpu 'a" =>
            /\ last.cmd = "cpu" /\ last.args = <<"'a">>
            /\ \E oc \in Outcomes :
                 LET eff == execute_command(command_history, "cpu",
                                            <<"'a">>, oc)
                 IN /\ last.branch = eff.branch
                    /\ last.calls = eff.calls
                    /\ last.ret = eff.ret

\* C25 witness: "cpu 'a" was typed and the operation behind the alias cpu
\* was invoked with the argument 'a.
C25_Witness ==
  /\ LineDone
  /\ last.raw = "cpu 'a"
  /\ last.cmd = "cpu"
  /\ Len(last.calls) = 1
  /\ last.calls[1].args = <<"'a">>
  /\ last.ret = "True"
  /\ pc = "prompt"

\* A typed line without the whitespace before its first and after its last
\* character that is no whitespace; every character between them is kept.
CoreOf ==
  [ raw \in Typed |->
      LET solid == { i \in 1..Len(raw) : ~IsSpace(CharAt(raw, i)) }
      IN IF solid = {} THEN ""
         ELSE SubSeq(raw, CHOOSE i \in solid : \A j \in solid : i <= j,
                          CHOOSE i \in solid : \A j \in solid : j <= i) ]

\* C26 as stated: every entry of command_history is the line as it was
\* typed, character for character.
C26_HistoryVerbatim ==
  /\ Len(command_history) = Len(submitted)
  /\ \A i \in 1..Len(submitted) : command_history[i] = submitted[i]

\* C26 amended: every entry of command_history is the line as it was typed
\* without its leading and trailing whitespace; the characters in between,
\* their case and the whitespace among them are kept.  The entry of the
\* last line is the last entry.
C26_HistoryStripped ==
  /\ Len(command_history) = Len(submitted)
  /\ \A i \in 1..Len(submitted) : command_history[i] = CoreOf[submitted[i]]
  /\ last.ev = "line" =>
       command_history[Len(command_history)] = CoreOf[last.raw]

\* C26 witness: " CPU -i B " was typed and the entry is "CPU -i B".
C26_Witness ==
  /\ Len(command_history) >= 2
  /\ submitted[1] = " CPU -i B "
  /\ command_history[1] = "CPU -i B"

\* C27: in every step command_history keeps its entries in their places;
\* it changes only when the loop accepts a line at the prompt, by that one
\* entry at the end, and never while execute_command or the menu runs
\* (built-ins history, clear and menu and registered operations included).
C27_HistoryAppendOnly ==
  [][ /\ Len(command_history') >= Len(command_history)
      /\ SubSeq(command_history', 1, Len(command_history)) = command_history
      /\ command_history' # command_history =>
           /\ pc = "prompt"
           /\ last'.ev = "line"
           /\ command_history'
                = Append(command_history, CoreOf[last'.raw])
      /\ pc # "prompt" => command_history' = command_history ]_vars

\* C27 witness: after "clear" and at least two more lines, the built-in
\* history has printed its table, and the first entry is still "clear".
C27_Witness ==
  /\ LineDone
  /\ Len(command_history) >= 3
  /\ command_history[1] = "clear"
  /\ last.branch = "history"
  /\ last.out[1].kind = "history"

\* In the shell main() has configured, every alias reaches the registry:
\* execute_command on an alias token whose target is no built-in verb
\* invokes the operation registered under the target, once, with the
\* arguments given.
AliasesDispatch ==
  ConfiguredByMain /\ Len(command_history) <= 1 =>
    \A a \in DOMAIN aliases : \A args \in ArgSamples : \A oc \in Outcomes :
      aliases[a] \notin BuiltinVerbs =>
        LET e == execute_command(command_history, a, args, oc)
        IN /\ e.branch = "registry"
           /\ e.calls = << [name |-> aliases[a],
                            func |-> commands[aliases[a]],
                            args |-> args, ends |-> oc.kind] >>
           /\ e.ret \in {"True", "KeyboardInterrupt"}
           /\ e.ret = "KeyboardInterrupt" <=> oc.kind = "KeyboardInterrupt"
           /\ Reports(e.out, "unknown") = {}

\* An alias of main() typed at the prompt, its target no built-in verb.
AliasTyped ==
  /\ ConfiguredByMain
  /\ LineDone
  /\ last.cmd \in DOMAIN aliases
  /\ aliases[last.cmd] \notin BuiltinVerbs

DispatchesOn(e, b) ==
  IF b \in BuiltinVerbs THEN e.branch = BuiltinBranch(b)
  ELSE IF b \in DOMAIN commands
    THEN /\ e.branch = "registry"
         /\ Len(e.calls) = 1
         /\ e.calls[1].name = b
         /\ e.calls[1].func = commands[b]
    ELSE /\ e.branch = "unknown"
         /\ e.calls = <<>>
         /\ e.out[1].text = "Unknown command: " \o b

\* The aliases whose target is itself a key of the alias table.
Chained == { a \in DOMAIN aliases : aliases[a] \in DOMAIN aliases }

\* C29: alias resolution is one lookup: when alias a maps to b and b is
\* itself an alias key (mapping to c), execute_command(a, args) does what
\* the built-ins and the registry do for b, not for c; a line that starts
\* with a is dispatched on b.
C29_AliasSingleStep ==
  /\ Len(command_history) <= 1 =>
       \A a \in Chained : \A args \in ArgSamples : \A oc \in Outcomes :
         LET e == execute_command(command_history, a, args, oc)
         IN /\ e = ExecuteResolved(command_history, aliases[a], args, oc)
            /\ DispatchesOn(e, aliases[a])
  /\ (LineDone /\ last.menu_cmd = "" /\ last.cmd \in Chained) =>
       /\ last.resolved = aliases[last.cmd]
       /\ DispatchesOn(last, aliases[last.cmd])

\* C29 witness: cpu maps to system.cpu and system.cpu maps to exit; "cpu"
\* was typed and the operation registered as system.cpu ran, the session
\* goes on; execute_command("system.cpu") would have stopped it.
C29_Witness ==
  /\ LineDone
  /\ last.cmd = "cpu"
  /\ "cpu" \in Chained
  /\ aliases["cpu"] = "system.cpu"
  /\ aliases["system.cpu"] = "exit"
  /\ last.branch = "registry"
  /\ last.calls[1].name = "system.cpu"
  /\ running
  /\ pc = "prompt"
  /\ execute_command(command_history, "system.cpu", last.args,
                     [kind |-> "return", msg |-> ""]).branch = "exit"

\* The line just dispatched invoked an operation in which a
\* KeyboardInterrupt was raised.
Interrupted ==
  /\ LineDone
  /\ \E i \in DOMAIN last.calls : last.calls[i].ends = "KeyboardInterrupt"

====
